---- MODULE Spec2Model ----
(***************************************************************************)
(* StyleTTSEngine (RealtimeTTS/engines/style_engine.py): construction,     *)
(* the checkpoint loader, the inference pipeline (text frontend, style     *)
(* blend, duration alignment, tail trim), synthesize and the output queue. *)
(*                                                                         *)
(* Tensors are modelled as [shape, data]: squeeze() drops every axis of    *)
(* size 1, so a one-element tensor becomes 0-dimensional and can neither   *)
(* be indexed nor asked for shape[-1].  Real numbers are fixed point:      *)
(* alpha and beta in units of 1/Scale, duration scores in tenths, samples  *)
(* in units of 1/SampleDen.  The neural sub-models (phonemizer, sampler,   *)
(* duration predictor, decoder) are oracles whose outputs are drawn from   *)
(* small sets.                                                             *)
(***************************************************************************)
EXTENDS Integers, Sequences, FiniteSets, TLC

\* ---------------------------------------------------------------- bounds
MaxTextLen == 2
MaxCalls == 2
MaxDictLen == 2
Scale == 10
SampleDen == 100

\* ------------------------------------------------------ program constants
StyleHalf == 128
TrimLen == 50
PrefixLen == 7
PcmScale == 32767
maxsize == 0

\* --------------------------------------------------------------- helpers
RECURSIVE SumSeq(_)
SumSeq(s) == IF s = <<>> THEN 0 ELSE Head(s) + SumSeq(Tail(s))

RECURSIVE SeqsUpTo(_, _)
SeqsUpTo(S, n) ==
    IF n = 0 THEN {<<>>}
    ELSE LET shorter == SeqsUpTo(S, n - 1)
         IN  shorter \cup {Append(s, x) : s \in shorter, x \in S}

\* torch / numpy squeeze(): every axis of size 1 is removed.
Squeeze(shape) == SelectSeq(shape, LAMBDA d : d # 1)

\* ---------------------------------------------------------- text frontend
Chars == {"a", " "}
Texts == SeqsUpTo(Chars, MaxTextLen)

RECURSIVE LStrip(_)
LStrip(t) == IF t # <<>> /\ Head(t) = " " THEN LStrip(Tail(t)) ELSE t

RECURSIVE RStrip(_)
RStrip(t) ==
    IF t # <<>> /\ t[Len(t)] = " " THEN RStrip(SubSeq(t, 1, Len(t) - 1)) ELSE t

\* str.strip()
Strip(t) == RStrip(LStrip(t))

\* EspeakBackend.phonemize: one phoneme symbol per letter, blanks kept.
Phonemize(t) == [i \in 1..Len(t) |-> IF t[i] = " " THEN " " ELSE "A"]

\* word_tokenize followed by ' '.join: the words of p, separated by exactly
\* one blank (p has no punctuation here).
RECURSIVE TokenizeJoin(_)
TokenizeJoin(p) ==
    LET q == LStrip(p)
    IN  IF q = <<>> THEN <<>>
        ELSE IF Tail(q) = <<>> \/ Head(Tail(q)) # " "
             THEN <<Head(q)>> \o TokenizeJoin(Tail(q))
        ELSE IF LStrip(Tail(q)) = <<>> THEN <<Head(q)>>
        ELSE <<Head(q), " ">> \o TokenizeJoin(Tail(q))

\* TextCleaner: the symbol -> index dictionary.
word_index_dictionary(c) == IF c = " " THEN 16 ELSE 43

textcleaner(ps) == [i \in 1..Len(ps) |-> word_index_dictionary(ps[i])]

\* inference, lines 258-264: the token sequence with the boundary token 0 in front.
TextFrontend(text) == <<0>> \o textcleaner(TokenizeJoin(Phonemize(Strip(text))))

\* ------------------------------------------------------------ style blend
AlphaSet == {0, 3, Scale}

\* model.style_encoder / model.predictor_encoder on the reference mel.
StyleEncoderOut(q) == [i \in 1..StyleHalf |-> 1000 + 10 * q + i]
PredictorEncoderOut(q) == [i \in 1..StyleHalf |-> 2000 + 10 * q + i]

\* compute_reference_style, line 230: ref_s = cat([ref_s, ref_p], dim=1).
ReferenceStyle(q) == StyleEncoderOut(q) \o PredictorEncoderOut(q)

\* The diffusion sampler's 256-dim output for noise seed p.
SamplerOut(p) == [i \in 1..(2 * StyleHalf) |-> 300 * p + i]

\* Line 284: ref = s_pred[:, :128].
SampledRefMutSwapped(s_pred) == SubSeq(s_pred, StyleHalf + 1, 2 * StyleHalf)
SampledRef(s_pred) == SubSeq(s_pred, 1, StyleHalf)

\* Line 283: s = s_pred[:, 128:].
SampledS(s_pred) == SubSeq(s_pred, StyleHalf + 1, 2 * StyleHalf)

\* Lines 287-288: k * sampled + (1 - k) * reference, in units of 1/Scale.
BlendMutNoComplement(k, sampled, reference) ==
    [i \in 1..Len(sampled) |-> k * sampled[i] + k * reference[i]]
Blend(k, sampled, reference) ==
    [i \in 1..Len(sampled) |-> k * sampled[i] + (Scale - k) * reference[i]]

\* ----------------------------------------------------- duration alignment
DurScores == {4, 25, 30}

\* torch.round on a non-negative score in tenths: half to even.
Round(x) ==
    LET q == x \div 10
        r == x % 10
    IN  IF r < 5 THEN q
        ELSE IF r > 5 THEN q + 1
        ELSE IF q % 2 = 0 THEN q ELSE q + 1

\* Line 294: pred_dur = torch.round(duration.squeeze()).clamp(min=1);
\* duration has shape [1, T].
PredDur(duration) ==
    [shape |-> Squeeze(<<1, Len(duration)>>),
     data  |-> [i \in 1..Len(duration) |->
                   IF Round(duration[i]) < 1 THEN 1 ELSE Round(duration[i])]]

\* pred_aln_trg[i, lo:hi] = 1 on a row of F zeros (frames are 0-based).
AlignRow(F, lo, hi) == [f \in 1..F |-> IF f > lo /\ f <= hi THEN 1 ELSE 0]

\* Lines 297-300: the placement loop from row i with cursor c_frame.
RECURSIVE AlignLoop(_, _, _, _)
AlignLoop(dur, i, c_frame, F) ==
    IF i > Len(dur) THEN <<>>
    ELSE <<AlignRow(F, c_frame, c_frame + dur[i])>>
         \o AlignLoop(dur, i + 1, c_frame + dur[i], F)

\* Lines 296-300 for an indexable pred_dur.
BuildAlignment(dur) == AlignLoop(dur, 1, 0, SumSeq(dur))

\* ------------------------------------------------------- decoder and trim
DecoderLens == {0, 1, 2, TrimLen - 1, TrimLen, TrimLen + 1, TrimLen + 2}

\* model.decoder output of n samples, shape [1, 1, n]; sample i is +-i/SampleDen.
DecoderOut(n) ==
    [shape |-> <<1, 1, n>>,
     data  |-> [i \in 1..n |-> IF i % 2 = 0 THEN i ELSE 0 - i]]

\* Lines 321-322 on a waveform with at least one axis.
TrimTail(w) == IF Len(w) > TrimLen THEN SubSeq(w, 1, Len(w) - TrimLen) ELSE w

\* ------------------------------------------------- the inference pipeline
\* o = [seed, scores, n]: the sampler's noise seed, the duration predictor's
\* score per token, the decoder's sample count.
Oracles(T) == [seed : {1}, scores : [1..T -> DurScores], n : DecoderLens]

\* inference(), lines 258-324.  status "raised" with stage "align" is the
\* IndexError of pred_dur[i] on a 0-dim tensor (line 299); stage "trim" is the
\* IndexError of waveform.shape[-1] on a 0-dim array (line 321).
Inference(text, a, b, refs, o) ==
    LET tokens   == TextFrontend(text)
        s_pred   == SamplerOut(o.seed)
        ref      == Blend(a, SampledRef(s_pred), SubSeq(refs, 1, StyleHalf))
        s        == Blend(b, SampledS(s_pred), SubSeq(refs, StyleHalf + 1, 2 * StyleHalf))
        pred_dur == PredDur(o.scores)
        alignOk  == pred_dur.shape # <<>>
        out      == DecoderOut(o.n)
        wshape   == Squeeze(out.shape)
        trimOk   == wshape # <<>>
    IN  [none          |-> FALSE,
         status        |-> IF alignOk /\ trimOk THEN "ok" ELSE "raised",
         stage         |-> IF ~alignOk THEN "align"
                           ELSE IF ~trimOk THEN "trim" ELSE "done",
         tokens        |-> tokens,
         ref           |-> ref,
         s             |-> s,
         pred_dur      |-> pred_dur.data,
         pred_aln_trg  |-> IF alignOk THEN BuildAlignment(pred_dur.data) ELSE <<>>,
         predictor_style |-> s,
         decoder_style |-> IF alignOk THEN ref ELSE <<>>,
         out_n         |-> IF alignOk THEN o.n ELSE 0 - 1,
         waveform      |-> IF alignOk /\ trimOk THEN TrimTail(out.data) ELSE <<>>]

\* ------------------------------------------------------------- synthesize
\* (waveform * 32767).astype(np.int16): truncation toward zero, two's complement.
Int16(x) ==
    LET v == IF x >= 0 THEN (x * PcmScale) \div SampleDen
             ELSE 0 - (((0 - x) * PcmScale) \div SampleDen)
    IN  v % 65536

\* .tobytes(): two little-endian bytes per sample.
ToPcm(w) ==
    [j \in 1..(2 * Len(w)) |->
        LET u == Int16(w[(j + 1) \div 2])
        IN  IF j % 2 = 1 THEN u % 256 ELSE u \div 256]

\* Queue(): maxsize 0 is unbounded; put blocks while a bounded queue is full.
Full(q) == maxsize > 0 /\ Len(q) >= maxsize

\* Queue.put, line 117.
QueuePutMutTwice(q, chunk) == Append(Append(q, chunk), chunk)
QueuePutMutFront(q, chunk) == <<chunk>> \o q
QueuePut(q, chunk) == Append(q, chunk)

\* synthesize, lines 115-120, on what inference returned (r.none: the value
\* is None) with the queue q; id is the number of the call.
SynthesizeTail(r, q, id) ==
    IF ~r.none
    THEN [ret |-> "true", put |-> TRUE,
          queue |-> QueuePut(q, [id |-> id, data |-> ToPcm(r.waveform)])]
    ELSE [ret |-> "false", put |-> FALSE, queue |-> q]

\* ------------------------------------------------------------------ state
VARIABLES
    lifecycle,        \* "Uninitialized", "ModelLoaded", "Ready", "Failed" (__init__ raised)
    alpha, beta, diffusion_steps, embedding_scale,   \* lines 77-80
    ref_s,            \* self.ref_s, <<>> before compute_reference_style
    styleRuns,        \* how often compute_reference_style has completed
    queue,            \* self.queue: chunks [id, data]
    pc,               \* the caller of synthesize: "idle", "inferred"
    pending,          \* what inference returned to a running synthesize
    calls,            \* synthesize calls started
    ret,              \* outcome of the last call: "none", "running", "true", "false", "raised"
    retTrue,          \* calls that returned True
    received,         \* chunks the playback consumer has taken
    inp, res,         \* single call: its inputs and what inference computed
    params,           \* load_model: the checkpoint's 'net' mapping
    idx,              \* load_model: position of the loop over self.model
    loads             \* load_model: per sub-model, the load attempts made

engineVars == <<lifecycle, alpha, beta, diffusion_steps, embedding_scale, ref_s,
                styleRuns, queue, pc, pending, calls, ret, retTrue, received>>
callVars == <<inp, res>>
loadVars == <<params, idx, loads>>
vars == <<engineVars, callVars, loadVars>>

NoPending == [none |-> FALSE, waveform |-> <<>>]
NoCall == [text |-> <<>>, seed |-> 0, scores |-> <<>>, n |-> 0]
NoResult == [status |-> "none"]

CallIdle == inp = NoCall /\ res = NoResult
LoadIdle == params = <<>> /\ idx = 0 /\ loads = <<>>

\* ---------------------------------------------------- the engine (Spec)
\* The alpha/beta pairs engines are constructed with: the defaults and a corner.
EngineBlends == {<<3, 7>>, <<0, Scale>>}
RefSeeds == {0, 1}

\* The oracle outputs drawn per call by the engine: every token scored 2.5,
\* any decoder length.
EngineOracles(T) == {o \in Oracles(T) : \A i \in 1..T : o.scores[i] = 25}

\* __init__, lines 70-85: the arguments are stored and the queue is created.
Init ==
    /\ lifecycle = "Uninitialized"
    /\ \E ab \in EngineBlends : alpha = ab[1] /\ beta = ab[2]
    /\ diffusion_steps = 5
    /\ embedding_scale = Scale
    /\ ref_s = <<>>
    /\ styleRuns = 0
    /\ queue = <<>>
    /\ pc = "idle"
    /\ pending = NoPending
    /\ calls = 0
    /\ ret = "none"
    /\ retTrue = 0
    /\ received = <<>>
    /\ CallIdle
    /\ LoadIdle

\* __init__, line 86: load_model returns, or raises and construction fails.
LoadModel ==
    /\ lifecycle = "Uninitialized"
    /\ \/ lifecycle' = "ModelLoaded"
       \/ lifecycle' = "Failed"
    /\ UNCHANGED <<alpha, beta, diffusion_steps, embedding_scale, ref_s, styleRuns,
                   queue, pc, pending, calls, ret, retTrue, received>>
    /\ UNCHANGED <<callVars, loadVars>>

\* __init__, lines 87-88: compute_reference_style caches ref_s (then post_init),
\* or the audio read raises and construction fails.
ComputeReferenceStyleMutEarly ==
    /\ lifecycle \in {"Uninitialized", "ModelLoaded"}
    /\ \E q \in RefSeeds : ref_s' = ReferenceStyle(q)
    /\ styleRuns' = styleRuns + 1
    /\ lifecycle' = "Ready"
    /\ UNCHANGED <<alpha, beta, diffusion_steps, embedding_scale,
                   queue, pc, pending, calls, ret, retTrue, received>>
    /\ UNCHANGED <<callVars, loadVars>>
ComputeReferenceStyle ==
    /\ lifecycle = "ModelLoaded"
    /\ \/ /\ \E q \in RefSeeds : ref_s' = ReferenceStyle(q)
          /\ styleRuns' = styleRuns + 1
          /\ lifecycle' = "Ready"
       \/ /\ lifecycle' = "Failed"
          /\ UNCHANGED <<ref_s, styleRuns>>
    /\ UNCHANGED <<alpha, beta, diffusion_steps, embedding_scale,
                   queue, pc, pending, calls, ret, retTrue, received>>
    /\ UNCHANGED <<callVars, loadVars>>

\* synthesize, lines 110-114: inference runs to its result, or raises out of
\* synthesize.
SynthesizeBegin ==
    /\ lifecycle = "Ready"
    /\ pc = "idle"
    /\ calls < MaxCalls
    /\ calls' = calls + 1
    /\ \E text \in Texts : \E o \in EngineOracles(Len(TextFrontend(text))) :
         LET r == Inference(text, alpha, beta, ref_s, o)
         IN  IF r.status = "raised"
             THEN /\ ret' = "raised"
                  /\ UNCHANGED <<pc, pending>>
             ELSE /\ ret' = "running"
                  /\ pc' = "inferred"
                  /\ pending' = [none |-> r.none, waveform |-> r.waveform]
    /\ UNCHANGED <<lifecycle, alpha, beta, diffusion_steps, embedding_scale, ref_s,
                   styleRuns, queue, retTrue, received>>
    /\ UNCHANGED <<callVars, loadVars>>

\* synthesize, lines 115-120: the chunk is put and True returned, or False.
SynthesizeEnd ==
    /\ pc = "inferred"
    /\ pending.none \/ ~Full(queue)
    /\ LET t == SynthesizeTail(pending, queue, calls)
       IN  /\ queue' = t.queue
           /\ ret' = t.ret
           /\ retTrue' = IF t.ret = "true" THEN retTrue + 1 ELSE retTrue
    /\ pc' = "idle"
    /\ pending' = NoPending
    /\ UNCHANGED <<lifecycle, alpha, beta, diffusion_steps, embedding_scale, ref_s,
                   styleRuns, calls, received>>
    /\ UNCHANGED <<callVars, loadVars>>

\* The playback consumer takes the oldest chunk (Queue.get).
PlaybackGet ==
    /\ queue # <<>>
    /\ received' = Append(received, Head(queue))
    /\ queue' = Tail(queue)
    /\ UNCHANGED <<lifecycle, alpha, beta, diffusion_steps, embedding_scale, ref_s,
                   styleRuns, pc, pending, calls, ret, retTrue>>
    /\ UNCHANGED <<callVars, loadVars>>

Next ==
    \/ LoadModel
    \/ ComputeReferenceStyle
    \/ SynthesizeBegin
    \/ SynthesizeEnd
    \/ PlaybackGet

Spec == Init /\ [][Next]_vars

\* ------------------------------------- one synthesize call (SpecCall)
\* A Ready engine, any blend factors, and one call with every input drawn.
InitCall ==
    /\ lifecycle = "Ready"
    /\ alpha \in AlphaSet
    /\ beta \in AlphaSet
    /\ diffusion_steps = 5
    /\ embedding_scale = Scale
    /\ ref_s = ReferenceStyle(0)
    /\ styleRuns = 1
    /\ queue = <<>>
    /\ pc = "idle"
    /\ pending = NoPending
    /\ calls = 0
    /\ ret = "none"
    /\ retTrue = 0
    /\ received = <<>>
    /\ CallIdle
    /\ LoadIdle

\* synthesize(text), lines 103-120, as one step.
SynthesizeCall ==
    /\ lifecycle = "Ready"
    /\ calls = 0
    /\ calls' = 1
    /\ \E text \in Texts : \E o \in Oracles(Len(TextFrontend(text))) :
         LET r == Inference(text, alpha, beta, ref_s, o)
             t == SynthesizeTail(r, queue, 1)
         IN  /\ inp' = [text |-> text, seed |-> o.seed, scores |-> o.scores, n |-> o.n]
             /\ res' = r
             /\ IF r.status = "raised"
                THEN ret' = "raised" /\ UNCHANGED <<queue, retTrue>>
                ELSE /\ ret' = t.ret
                     /\ queue' = t.queue
                     /\ retTrue' = IF t.ret = "true" THEN 1 ELSE 0
    /\ UNCHANGED <<lifecycle, alpha, beta, diffusion_steps, embedding_scale, ref_s,
                   styleRuns, pc, pending, received>>
    /\ UNCHANGED loadVars

NextCall == SynthesizeCall

SpecCall == InitCall /\ [][NextCall]_vars

\* ------------------------------------- the checkpoint loader (SpecLoad)
\* Weight names are character sequences, so that a slice is a slice.
Prefix == <<"m", "o", "d", "u", "l", "e", ".">>
W == <<"w">>
B == <<"b">>

\* The sub-models of self.model in iteration order, and the parameter names
\* each expects.
ModelKeys == <<"bert", "decoder">>
ExpectedKeys == {W, B}

KeyPool == {W, B, Prefix \o W, Prefix \o B, <<"x">>}
TensorVals == {1, 2}

Keys(sd) == {sd[j].key : j \in 1..Len(sd)}

\* The state dicts a checkpoint may hold for a sub-model: distinct keys in
\* any order, any tensors.
StateDicts ==
    {sd \in SeqsUpTo([key : KeyPool, val : TensorVals], MaxDictLen) :
        Cardinality(Keys(sd)) = Len(sd)}

PlainDict == <<[key |-> W, val |-> 1], [key |-> B, val |-> 2]>>

\* Module.load_state_dict: the matching tensors are copied, then a strict load
\* raises when a key is missing or unexpected.
LoadStateDict(weights, sd, strict) ==
    [raised  |-> strict /\ Keys(sd) # ExpectedKeys,
     weights |-> [k \in ExpectedKeys |->
                    IF k \in Keys(sd)
                    THEN (CHOOSE e \in {sd[j] : j \in 1..Len(sd)} : e.key = k).val
                    ELSE weights[k]]]

\* Line 189: name = k[7:].
StripKeyMutSix(k) ==
    IF Len(k) > PrefixLen - 1 THEN SubSeq(k, PrefixLen, Len(k)) ELSE <<>>
StripKey(k) ==
    IF Len(k) > PrefixLen THEN SubSeq(k, PrefixLen + 1, Len(k)) ELSE <<>>

\* OrderedDict.__setitem__: a new key goes last, an old key keeps its place.
OdSet(od, name, v) ==
    IF name \in Keys(od)
    THEN [j \in 1..Len(od) |-> IF od[j].key = name THEN [key |-> name, val |-> v] ELSE od[j]]
    ELSE Append(od, [key |-> name, val |-> v])

\* Lines 187-190: the loop over state_dict.items() from entry j.
RECURSIVE StripLoop(_, _, _)
StripLoop(sd, j, new_state_dict) ==
    IF j > Len(sd) THEN new_state_dict
    ELSE StripLoop(sd, j + 1, OdSet(new_state_dict, StripKey(sd[j].key), sd[j].val))

\* Lines 182-191 for one sub-model whose key is in params.
LoadOne(sd) ==
    LET fresh  == [k \in ExpectedKeys |-> 0]
        direct == LoadStateDict(fresh, sd, TRUE)
        new_state_dict == StripLoop(sd, 1, <<>>)
        retry  == LoadStateDict(direct.weights, new_state_dict, FALSE)
    IN  IF ~direct.raised
        THEN [present |-> TRUE, given |-> sd, directFailed |-> FALSE, retried |-> FALSE,
              retryDict |-> <<>>, retryStrict |-> FALSE, retryRaised |-> FALSE,
              weights |-> direct.weights]
        ELSE [present |-> TRUE, given |-> sd, directFailed |-> TRUE, retried |-> TRUE,
              retryDict |-> new_state_dict, retryStrict |-> FALSE,
              retryRaised |-> retry.raised, weights |-> retry.weights]

Skipped ==
    [present |-> FALSE, given |-> <<>>, directFailed |-> FALSE, retried |-> FALSE,
     retryDict |-> <<>>, retryStrict |-> FALSE, retryRaised |-> FALSE,
     weights |-> [k \in ExpectedKeys |-> 0]]

\* load_model at line 178: params = params_whole['net'].
InitLoad ==
    /\ lifecycle = "Uninitialized"
    /\ alpha = 3
    /\ beta = 7
    /\ diffusion_steps = 5
    /\ embedding_scale = Scale
    /\ ref_s = <<>>
    /\ styleRuns = 0
    /\ queue = <<>>
    /\ pc = "idle"
    /\ pending = NoPending
    /\ calls = 0
    /\ ret = "none"
    /\ retTrue = 0
    /\ received = <<>>
    /\ CallIdle
    /\ \E S \in SUBSET {ModelKeys[i] : i \in 1..Len(ModelKeys)} :
         \E d \in StateDicts :
           params = [k \in S |-> IF k = "bert" THEN d ELSE PlainDict]
    /\ idx = 0
    /\ loads = <<>>

\* Lines 179-191: one iteration of `for key in self.model`.
LoadSubModel ==
    /\ idx < Len(ModelKeys)
    /\ idx' = idx + 1
    /\ LET key == ModelKeys[idx + 1]
       IN  \/ /\ key \in DOMAIN params
              /\ loads' = Append(loads, LoadOne(params[key]))
           \/ /\ key \notin DOMAIN params
              /\ loads' = Append(loads, Skipped)
    /\ UNCHANGED params
    /\ UNCHANGED <<engineVars, callVars>>

NextLoad == LoadSubModel

SpecLoad == InitLoad /\ [][NextLoad]_vars

\* ================================================================ claims
\* Helpers of the statements below (not part of the program).
Chunks == received \o queue
ChunksOf(k) == {j \in 1..Len(Chunks) : Chunks[j].id = k}
Lerp(k, x, y) == [i \in 1..Len(x) |-> k * x[i] + (Scale - k) * y[i]]
Times(k, x) == [i \in 1..Len(x) |-> k * x[i]]
FirstHalf(v) == SubSeq(v, 1, StyleHalf)
LastHalf(v) == SubSeq(v, StyleHalf + 1, 2 * StyleHalf)
Cursor(dur, i) == SumSeq(SubSeq(dur, 1, i - 1))
Ones(row) == {f \in 1..Len(row) : row[f] = 1}
DropChars(k, n) == IF Len(k) > n THEN SubSeq(k, n + 1, Len(k)) ELSE <<>>
ValOf(sd, k) == (CHOOSE e \in {sd[j] : j \in 1..Len(sd)} : e.key = k).val

\* C1: every synthesize call on a Ready engine enqueues at most one chunk:
\* exactly one when it returns True, none when it returns False or raises, so
\* the chunks ever enqueued are as many as the calls that returned True.
C1_OneChunkPerTrueCall ==
    /\ Len(Chunks) = retTrue
    /\ \A k \in 1..calls : Cardinality(ChunksOf(k)) <= 1
    /\ \A j \in 1..Len(Chunks) : Chunks[j].id \in 1..calls
    /\ (calls > 0 /\ ret = "true") => Cardinality(ChunksOf(calls)) = 1
    /\ (calls > 0 /\ ret \in {"false", "raised", "running"}) => ChunksOf(calls) = {}

\* C1 witness: a call has returned True with its chunk enqueued and a later
\* call has raised without enqueuing.
C1_Witness ==
    /\ calls >= 2
    /\ retTrue = 1
    /\ ret = "raised"
    /\ Len(Chunks) = 1

\* C2: when the pipeline produces no waveform (None, or a synthesis result of
\* zero samples), synthesize returns False without raising and the queue is
\* left unchanged.
C2_NoWaveformReturnsFalse ==
    (calls = 1 /\ res.status = "ok" /\ (res.none \/ Len(res.waveform) = 0))
        => (ret = "false" /\ queue = <<>>)

\* C3: synthesize("") returns a boolean without raising: the token sequence
\* is the boundary token alone and its alignment has at least one frame.
C3_EmptyTextReturnsBoolean ==
    (calls = 1 /\ inp.text = <<>>)
        => /\ res.tokens = <<0>>
           /\ ret \in {"true", "false"}
           /\ Len(res.pred_aln_trg) = 1
           /\ Len(res.pred_aln_trg[1]) >= 1

\* C4 as stated: the first half of the sampled vector is the prosody
\* component, blended with beta against the reference prosody; the last half
\* is the timbre component, blended with alpha against the reference timbre
\* and passed to the decoder.
C4_FirstHalfIsProsody ==
    (calls = 1 /\ res.stage # "align")
        => /\ res.predictor_style =
                Lerp(beta, FirstHalf(SamplerOut(inp.seed)), PredictorEncoderOut(0))
           /\ res.decoder_style =
                Lerp(alpha, LastHalf(SamplerOut(inp.seed)), StyleEncoderOut(0))

\* C4 amended: the first half [0:128) is the timbre component, blended with
\* alpha against the style encoder's half of the reference and passed to the
\* decoder; the last half [128:256) is the prosody component, blended with
\* beta against the predictor encoder's half and passed to the predictor.
C4_FirstHalfIsTimbre ==
    calls = 1
        => /\ res.ref = Lerp(alpha, FirstHalf(SamplerOut(inp.seed)), StyleEncoderOut(0))
           /\ res.s = Lerp(beta, LastHalf(SamplerOut(inp.seed)), PredictorEncoderOut(0))
           /\ res.predictor_style = res.s
           /\ res.stage # "align" => res.decoder_style = res.ref

\* C4 witness: a call that reached the decoder with alpha = 0.3 and beta = 1,
\* where the two halves and the two factors give different vectors.
C4_Witness ==
    /\ calls = 1
    /\ res.status = "ok"
    /\ alpha = 3
    /\ beta = Scale
    /\ inp.seed = 1

\* C5: each blended component is k * sampled + (1 - k) * reference on the
\* same-index half of the reference (k = alpha for the first half, beta for
\* the last); k = 0 gives the reference, k = 1 the sampled component.
C5_BlendIsLinearInterpolation ==
    calls = 1
        => LET sp == SamplerOut(inp.seed)
           IN  /\ Len(res.ref) = StyleHalf /\ Len(res.s) = StyleHalf
               /\ \A i \in 1..StyleHalf :
                    /\ res.ref[i] = alpha * sp[i] + (Scale - alpha) * ref_s[i]
                    /\ res.s[i] = beta * sp[StyleHalf + i]
                                    + (Scale - beta) * ref_s[StyleHalf + i]
               /\ alpha = 0 => res.ref = Times(Scale, FirstHalf(ref_s))
               /\ alpha = Scale => res.ref = Times(Scale, FirstHalf(sp))
               /\ beta = 0 => res.s = Times(Scale, LastHalf(ref_s))
               /\ beta = Scale => res.s = Times(Scale, LastHalf(sp))

\* C5 witness: a call with alpha = 0 and beta = 1, both boundary cases at once.
C5_Witness ==
    /\ calls = 1
    /\ alpha = 0
    /\ beta = Scale
    /\ res.status = "ok"

\* The alignment matrix A of the durations dur: sum(dur) columns, row i with
\* dur[i] contiguous ones from its cursor, every frame covered exactly once.
AlignmentOf(dur, A) ==
    /\ Len(A) = Len(dur)
    /\ \A i \in 1..Len(dur) :
         /\ Len(A[i]) = SumSeq(dur)
         /\ Ones(A[i]) = (Cursor(dur, i) + 1)..(Cursor(dur, i) + dur[i])
    /\ \A f \in 1..SumSeq(dur) :
         Cardinality({i \in 1..Len(dur) : A[i][f] = 1}) = 1
    /\ dur = <<2, 3, 1>> =>
         /\ Ones(A[1]) = {1, 2}
         /\ Ones(A[2]) = {3, 4, 5}
         /\ Ones(A[3]) = {6}

\* C6: for every duration vector of positive integers the alignment matrix is
\* built, with sum(duration) columns, row i marking [cursor_i, cursor_i +
\* duration[i]), every frame covered by exactly one token.
C6_AlignmentCoversFrames ==
    calls = 1
        => /\ \A i \in 1..Len(res.pred_dur) : res.pred_dur[i] >= 1
           /\ AlignmentOf(res.pred_dur, res.pred_aln_trg)

\* What the code does keep of C6: with two or more tokens the matrix is built
\* as claimed.
AlignmentOfSeveralTokens ==
    (calls = 1 /\ Len(res.pred_dur) >= 2)
        => /\ res.stage # "align"
           /\ AlignmentOf(res.pred_dur, res.pred_aln_trg)

\* C7: a decoded waveform of n samples comes back as its first n - 50 samples
\* when n > 50 and unmodified when n <= 50 (50 stay 50, 51 become 1).
C7_TrimFiftyAtTail ==
    (calls = 1 /\ res.out_n >= 0)
        => LET n == res.out_n
               w == DecoderOut(n).data
           IN  /\ res.status = "ok"
               /\ n > TrimLen => res.waveform = SubSeq(w, 1, n - TrimLen)
               /\ n <= TrimLen => res.waveform = w
               /\ n = TrimLen => Len(res.waveform) = TrimLen
               /\ n = TrimLen + 1 => Len(res.waveform) = 1

\* What the code does keep of C7: every length other than one sample.
TrimOfSeveralSamples ==
    (calls = 1 /\ res.out_n >= 0 /\ res.out_n # 1)
        => LET n == res.out_n
               w == DecoderOut(n).data
           IN  /\ res.status = "ok"
               /\ res.waveform = IF n > TrimLen THEN SubSeq(w, 1, n - TrimLen) ELSE w

\* C8: the fallback runs only for a sub-model whose direct load failed; it
\* strips the first 7 characters of every key; for keys that all carry the
\* 7-character prefix the retried load gets exactly the unprefixed keys, same
\* values and order, and tolerates missing keys.
C8_PrefixFallback ==
    \A m \in 1..Len(loads) :
        LET l  == loads[m]
            sd == l.given
            allPrefixed ==
                \A j \in 1..Len(sd) :
                    Len(sd[j].key) > Len(Prefix)
                    /\ SubSeq(sd[j].key, 1, Len(Prefix)) = Prefix
        IN  l.present =>
            /\ l.retried <=> l.directFailed
            /\ l.retried =>
                /\ ~l.retryStrict
                /\ ~l.retryRaised
                /\ Keys(l.retryDict) = {DropChars(sd[j].key, 7) : j \in 1..Len(sd)}
                /\ allPrefixed =>
                    /\ Len(l.retryDict) = Len(sd)
                    /\ \A j \in 1..Len(sd) :
                         /\ Prefix \o l.retryDict[j].key = sd[j].key
                         /\ l.retryDict[j].val = sd[j].val
                    /\ \A k \in ExpectedKeys :
                         l.weights[k] =
                            IF Prefix \o k \in Keys(sd) THEN ValOf(sd, Prefix \o k) ELSE 0
                    /\ Keys(sd) = {Prefix \o k : k \in ExpectedKeys}
                         => Keys(l.retryDict) = ExpectedKeys

\* C8 witness: a sub-model whose state dict carries the prefix on every
\* expected key has been loaded through the fallback.
C8_Witness ==
    \E m \in 1..Len(loads) :
        /\ loads[m].retried
        /\ Keys(loads[m].given) = {Prefix \o k : k \in ExpectedKeys}
        /\ \A k \in ExpectedKeys : loads[m].weights[k] # 0

\* The state part of C9: the style has been computed exactly when the engine
\* is Ready, and at most once; an engine that is not Ready has served nothing.
C9_LifecycleState ==
    /\ styleRuns <= 1
    /\ (lifecycle = "Ready") <=> (styleRuns = 1)
    /\ (lifecycle = "Ready") <=> (ref_s # <<>>)
    /\ lifecycle # "Ready" => (calls = 0 /\ pc = "idle" /\ queue = <<>> /\ received = <<>>)

\* The step part of C9: the order of the lifecycle, Failed and Ready are
\* final, and a Ready engine keeps its style and configuration.
C9_LifecycleStep ==
    /\ lifecycle' # lifecycle =>
         <<lifecycle, lifecycle'>> \in
            {<<"Uninitialized", "ModelLoaded">>, <<"ModelLoaded", "Ready">>,
             <<"Uninitialized", "Failed">>, <<"ModelLoaded", "Failed">>}
    /\ styleRuns' # styleRuns => (lifecycle = "ModelLoaded" /\ lifecycle' = "Ready")
    /\ lifecycle = "Failed" => lifecycle' = "Failed"
    /\ lifecycle = "Ready" =>
         /\ lifecycle' = "Ready"
         /\ ref_s' = ref_s
         /\ <<alpha', beta', diffusion_steps', embedding_scale'>>
              = <<alpha, beta, diffusion_steps, embedding_scale>>

\* C9: the lifecycle runs Uninitialized -> ModelLoaded -> Ready in that order;
\* the reference style is computed exactly once, after the model is loaded; a
\* failed construction never becomes Ready and serves no call; once Ready, no
\* step changes the lifecycle, the cached style or the blend configuration.
C9_Lifecycle == [][C9_LifecycleState /\ C9_LifecycleState' /\ C9_LifecycleStep]_vars

\* C9 witness: a Ready engine that has served two calls, one of them enqueued.
C9_Witness ==
    /\ lifecycle = "Ready"
    /\ styleRuns = 1
    /\ calls >= 2
    /\ pc = "idle"
    /\ retTrue >= 1

\* C10: with the pipeline producing and the playback consumer taking chunks
\* concurrently, the consumer gets the chunks in the order of the calls that
\* produced them, each once, none lost, and the put never blocks.
C10_FifoExactlyOnce ==
    /\ \A j \in 1..(Len(Chunks) - 1) : Chunks[j].id < Chunks[j + 1].id
    /\ Len(Chunks) = retTrue
    /\ (pc = "inferred" /\ ~pending.none) => ENABLED SynthesizeEnd
    /\ pc = "idle" /\ ret = "true" => Chunks[Len(Chunks)].id = calls

\* C10 witness: the consumer holds the first call's chunk, taken before the
\* second call put its own, which waits in the queue.
C10_Witness ==
    /\ Len(received) >= 1
    /\ Len(queue) >= 1
    /\ received[1].id < queue[1].id

====
